---- MODULE Spec2Model ----
(***************************************************************************)
(* Model of the StackOverflow question counters scripts/fetch_data.py and  *)
(* scripts/starting_fetch_data.py: the paginated generator fetch_questions *)
(* driven by the per-tag loop of main, the (date, tag) count table and the *)
(* CSV rows written at the end.                                            *)
(*                                                                         *)
(* Python values are encoded as follows.  An optional value (a dict key    *)
(* that may be absent, or None) is a sequence of length 0 or 1.  An item   *)
(* of a page is the optional value of its "creation_date" key.  A date is  *)
(* the triple <<year, month, day>>; a string is the sequence of its code   *)
(* points.                                                                 *)
(***************************************************************************)
EXTENDS Integers, Sequences, FiniteSets, TLC

\* ------------------------------------------------------------------------
\* Bounds of the model
\* ------------------------------------------------------------------------
MaxTags == 2
MaxPages == 2
MaxItems == 2

\* ------------------------------------------------------------------------
\* Inputs
\* ------------------------------------------------------------------------
FetchData == "fetch_data.py"
StartingFetchData == "starting_fetch_data.py"
Scripts == {FetchData, StartingFetchData}

\* tag names in ascending string order
TagNames == <<"java", "python">>
TagSet == {TagNames[i] : i \in 1..Len(TagNames)}

BoundedSeq(S, n) == UNION {[1..k -> S] : k \in 0..n}

\* args.tags: one or more tags (nargs="+"), duplicates allowed; the runs
\* explored start with "python", which sorts after "java"
TagLists == {s \in BoundedSeq(TagSet, MaxTags) : s # <<>> /\ s[1] = "python"}

\* 2024-03-01T00:00:00Z and 2024-03-02T00:00:00Z
CreationDates == {1709251200, 1709337600}

None == <<>>
Some(v) == <<v>>
Get(o, default) == IF o = None THEN default ELSE o[1]

\* an item is the optional value of its creation_date key
Items == {None} \cup {Some(t) : t \in CreationDates}

WellFormedLists == BoundedSeq({Some(t) : t \in CreationDates}, MaxItems)

\* pages of well-formed items, and pages whose last item is malformed
ItemLists ==
    WellFormedLists \cup
    {Append(l, None) : l \in {w \in WellFormedLists : Len(w) < MaxItems}}

NoResponse ==
    [status |-> 0, decodable |-> FALSE, quota_remaining |-> None,
     backoff |-> None, items |-> <<>>, has_more |-> None]

\* pages of at most one well-formed item
ShortItemLists == {l \in WellFormedLists : Len(l) <= 1}

\* status 200 pages whose quota is not exhausted
OkResponses ==
    [status : {200}, decodable : {TRUE},
     quota_remaining : {None},
     backoff : {None, Some(2)},
     items : ItemLists,
     has_more : {Some(FALSE), Some(TRUE)}]
    \cup
    [status : {200}, decodable : {TRUE},
     quota_remaining : {None, Some(1)},
     backoff : {None, Some(0)},
     items : ShortItemLists,
     has_more : {None, Some(TRUE)}]

\* status 200 pages that report quota_remaining = 0
QuotaResponses ==
    [status : {200}, decodable : {TRUE},
     quota_remaining : {Some(0)},
     backoff : {None, Some(2)},
     items : ShortItemLists,
     has_more : {Some(FALSE), Some(TRUE)}]

\* answers with an error status; the body may still carry wrapper fields
ErrorResponses ==
    [status : {500}, decodable : {TRUE},
     quota_remaining : {None},
     backoff : {None, Some(2)},
     items : ShortItemLists,
     has_more : {None, Some(TRUE)}]

\* a status 200 answer whose body is not JSON
Undecodable == [NoResponse EXCEPT !.status = 200]

\* what the server may answer to one request
Responses ==
    OkResponses \cup QuotaResponses \cup ErrorResponses \cup {Undecodable}

\* ------------------------------------------------------------------------
\* Dates
\* ------------------------------------------------------------------------
\* the date that lies n days after 1970-01-01, as <<year, month, day>>
DateOfOrdinal(n) ==
    LET z == n + 719468
        era == z \div 146097
        doe == z - era * 146097
        yoe == (doe - doe \div 1460 + doe \div 36524 - doe \div 146096) \div 365
        doy == doe - (365 * yoe + yoe \div 4 - yoe \div 100)
        mp == (5 * doy + 2) \div 153
        d == doy - (153 * mp + 2) \div 5 + 1
        m == IF mp < 10 THEN mp + 3 ELSE mp - 9
        y == yoe + era * 400 + (IF m <= 2 THEN 1 ELSE 0)
    IN <<y, m, d>>

\* the number of days from 1970-01-01 to the date d
OrdinalOfDate(d) ==
    LET y == IF d[2] <= 2 THEN d[1] - 1 ELSE d[1]
        era == y \div 400
        yoe == y - era * 400
        mp == IF d[2] > 2 THEN d[2] - 3 ELSE d[2] + 9
        doy == (153 * mp + 2) \div 5 + d[3] - 1
        doe == yoe * 365 + yoe \div 4 - yoe \div 100 + doy
    IN era * 146097 + doe - 719468

\* datetime.fromtimestamp(ts, tz=utc).date() as <<year, month, day>>
DateOfTimestamp(ts) == DateOfOrdinal(ts \div 86400)

\* int(d.timestamp()) of the UTC datetime with date d, tod seconds into the day
to_unix(d, tod) == OrdinalOfDate(d) * 86400 + tod

\* date.weekday(): Monday is 0, Sunday is 6; 1970-01-01 was a Thursday
weekday(d) == (OrdinalOfDate(d) + 3) % 7

Min(a, b) == IF a <= b THEN a ELSE b

\* the leap year test of month_delta
IsLeap(y) == y % 4 = 0 /\ (y % 100 # 0 \/ y % 400 = 0)

\* the list of month lengths of month_delta, indexed by m - 1
days_in_month(y, m) ==
    <<31, IF IsLeap(y) THEN 29 ELSE 28, 31, 30, 31, 30, 31, 31, 30, 31, 30, 31>>[m]

\* a division that rounds towards zero
TruncDiv(a, b) == IF a >= 0 THEN a \div b ELSE 0 - ((0 - a) \div b)

\* the year is computed with a division that rounds towards zero
month_delta_trunc(d, months) ==
    LET y == d[1] + TruncDiv(d[2] - 1 + months, 12)
        m == ((d[2] - 1 + months) % 12) + 1
        day == Min(d[3], days_in_month(y, m))
    IN <<y, m, day>>

\* every fourth year is a leap year
month_delta_julian(d, months) ==
    LET y == d[1] + (d[2] - 1 + months) \div 12
        m == ((d[2] - 1 + months) % 12) + 1
        day == Min(d[3], IF m = 2 /\ y % 4 = 0 THEN 29 ELSE days_in_month(y, m))
    IN <<y, m, day>>

\* month_delta on the date of d; d.replace keeps the time of day
month_delta(d, months) ==
    LET y == d[1] + (d[2] - 1 + months) \div 12
        m == ((d[2] - 1 + months) % 12) + 1
        day == Min(d[3], days_in_month(y, m))
    IN <<y, m, day>>

\* the characters of a number, as code points
Digits2(n) == <<48 + (n \div 10), 48 + (n % 10)>>
Digits4(n) == Digits2(n \div 100) \o Digits2(n % 100)

\* date.isoformat(): YYYY-MM-DD as a sequence of code points
isoformat(d) == Digits4(d[1]) \o <<45>> \o Digits2(d[2]) \o <<45>> \o Digits2(d[3])

day_bucket(created_utc) == isoformat(DateOfTimestamp(created_utc))

\* the week key is the day itself moved back by isoweekday()
bucket_date_isoweekday(creation_utc, grain) ==
    LET date == DateOfTimestamp(creation_utc)
    IN IF grain = "day" THEN isoformat(date)
       ELSE isoformat(DateOfOrdinal(OrdinalOfDate(date) - (weekday(date) + 1)))

\* bucket_date of starting_fetch_data.py: the day, or the Monday of its week
bucket_date(creation_utc, grain) ==
    LET date == DateOfTimestamp(creation_utc)
    IN IF grain = "day" THEN isoformat(date)
       ELSE isoformat(DateOfOrdinal(OrdinalOfDate(date) - weekday(date)))

\* ------------------------------------------------------------------------
\* The count table: a defaultdict(int) keyed by <<date, tag>>
\* ------------------------------------------------------------------------
\* counts[key] = 1 instead of counts[key] += 1
IncrementOverwrite(table, key) ==
    [k \in DOMAIN table \cup {key} |-> IF k = key THEN 1 ELSE table[k]]

\* a key that is new is entered with the default 0
IncrementFromZero(table, key) ==
    IF key \in DOMAIN table
    THEN [table EXCEPT ![key] = @ + 1]
    ELSE [k \in DOMAIN table \cup {key} |-> IF k = key THEN 0 ELSE table[k]]

Increment(table, key) ==
    IF key \in DOMAIN table
    THEN [table EXCEPT ![key] = @ + 1]
    ELSE [k \in DOMAIN table \cup {key} |-> IF k = key THEN 1 ELSE table[k]]

EmptyTable == [k \in {} |-> 0]

RECURSIVE SumOver(_, _)
SumOver(table, keys) ==
    IF keys = {} THEN 0
    ELSE LET k == CHOOSE x \in keys : TRUE
         IN table[k] + SumOver(table, keys \ {k})

KeysOfTag(table, tag) == {k \in DOMAIN table : k[2] = tag}
SumOfTag(table, tag) == SumOver(table, KeysOfTag(table, tag))

\* ------------------------------------------------------------------------
\* The rows of the CSV file
\* ------------------------------------------------------------------------
\* the code points of a tag
TagChars(tag) ==
    CASE tag = "java" -> <<106, 97, 118, 97>>
      [] tag = "python" -> <<112, 121, 116, 104, 111, 110>>

\* a < b for Python strings: the first differing character decides, a proper
\* prefix is smaller
StrLess(a, b) ==
    \E k \in 1..(Len(a) + 1) :
        /\ k <= Len(b)
        /\ \A i \in 1..(k - 1) : a[i] = b[i]
        /\ k = Len(a) + 1 \/ a[k] < b[k]

\* the rows are sorted by tag first
RowLessTagFirst(x, y) ==
    \/ StrLess(TagChars(x.tag), TagChars(y.tag))
    \/ x.tag = y.tag /\ StrLess(x.date, y.date)

\* (x["date"], x["tag"]) < (y["date"], y["tag"]) for tuples of strings
RowLess(x, y) ==
    \/ StrLess(x.date, y.date)
    \/ x.date = y.date /\ StrLess(TagChars(x.tag), TagChars(y.tag))

RECURSIVE SeqOfSet(_)
SeqOfSet(S) ==
    IF S = {} THEN <<>>
    ELSE LET x == CHOOSE y \in S : TRUE
         IN <<x>> \o SeqOfSet(S \ {x})

SortedRows(table) ==
    SortSeq(SeqOfSet({[date |-> k[1], tag |-> k[2], questions_count |-> table[k]]
                        : k \in DOMAIN table}),
            RowLess)

\* ------------------------------------------------------------------------
\* State
\* ------------------------------------------------------------------------
VARIABLES
    script,        \* which of the two scripts runs
    tags,          \* args.tags
    max_pages,     \* args.max_pages
    grain,         \* args.grain of starting_fetch_data.py
    ti,            \* index in args.tags of the tag of the for loop of main
    pc,            \* position of main and of the generator
    page,          \* fetch_questions: page
    resp,          \* fetch_questions: r and payload
    idx,           \* fetch_questions: index of the next item of the page
    q,             \* main: the item being counted
    counts,        \* main: counts
    fetched,       \* main: fetched
    last_created,  \* main: last_created
    stdout,        \* the per-tag Done / Stopped lines printed
    rows,          \* the rows written to the CSV file, None until written
    reqPages,      \* history: pages requested for the current tag
    owed,          \* history: backoff seconds of the payload of the last
                   \* status 200 response that were not slept yet
    slept,         \* history: seconds slept since the last response, None
                   \* when time.sleep was not called
    yielded,       \* history: items yielded for the current tag
    served,        \* history: item lists of the responses received for the
                   \* current tag
    countsAtStart, \* history: counts when the current tag started
    clean,         \* history: every response of the current tag was a
                   \* status 200 page without quota_remaining = 0
    last,          \* history: the step taken last
    nReq,          \* history: requests issued in the whole run
    httpError,     \* history: a response of the run had a status other
                   \* than 200
    leftBefore,    \* history: StepsLeft before the step taken last
    call,          \* position of a calculation on dates
    arg,           \* the arguments of that calculation
    res            \* its results

vars == <<script, tags, max_pages, ti, pc, page, resp, idx, q, counts, fetched,
          last_created, stdout, rows, reqPages, owed, slept, yielded, served,
          countsAtStart, clean, last, grain, nReq, httpError, leftBefore, call,
          arg, res>>

main_vars == <<script, tags, max_pages, grain>>

run_hist == <<nReq, httpError>>

calc_vars == <<call, arg, res>>

fetch_vars == <<script, tags, max_pages, ti, pc, page, resp, idx, q, counts,
                fetched, last_created, stdout, rows, reqPages, owed, slept,
                yielded, served, countsAtStart, clean, last, grain, nReq,
                httpError, leftBefore>>

Grains == {"day", "week"}

\* ------------------------------------------------------------------------
\* A bound on the steps that a run still has to take
\* ------------------------------------------------------------------------
Terminated == pc \in {"end", "crashed"}

\* pages that while page <= max_pages lets through
PageAllowance == IF max_pages > 0 THEN max_pages ELSE 0

\* steps that one page takes at most
PageCost == 2 * MaxItems + 7

\* steps that one tag takes at most
TagCost == PageAllowance * PageCost + 4

\* steps still to come in the page at hand
StepsInPage ==
    CASE pc = "status" -> 2 * MaxItems + 6
      [] pc = "json" -> 2 * MaxItems + 5
      [] pc = "quota" -> 2 * MaxItems + 4
      [] pc = "backoff" -> 2 * MaxItems + 3
      [] pc = "items" -> 2 * (Len(resp.items) + 1 - idx) + 2
      [] pc = "body" -> 2 * (Len(resp.items) + 1 - idx) + 3
      [] pc = "has_more" -> 1

\* steps still to come in the tag at hand
StepsInTag ==
    CASE pc \in {"except", "tag_done"} -> 1
      [] pc = "while" ->
            (IF page <= max_pages THEN max_pages + 1 - page ELSE 0) * PageCost
            + 2
      [] OTHER -> (max_pages - page) * PageCost + 2 + StepsInPage

StepsLeft ==
    CASE Terminated -> 0
      [] pc = "for_tag" -> (Len(tags) + 1 - ti) * TagCost + 1
      [] OTHER -> (Len(tags) - ti) * TagCost + 1 + StepsInTag

\* the state of main before the loop over the tags
Fresh ==
    /\ ti = 1
    /\ pc = "for_tag"
    /\ page = 1
    /\ resp = NoResponse
    /\ idx = 1
    /\ q = None
    /\ counts = EmptyTable
    /\ fetched = 0
    /\ last_created = None
    /\ stdout = <<>>
    /\ rows = None
    /\ reqPages = <<>>
    /\ owed = 0
    /\ slept = None
    /\ yielded = <<>>
    /\ served = <<>>
    /\ countsAtStart = EmptyTable
    /\ clean = TRUE
    /\ last = "Init"
    /\ nReq = 0
    /\ httpError = FALSE
    /\ leftBefore = StepsLeft

Init ==
    /\ script \in Scripts
    /\ tags \in TagLists
    /\ max_pages \in (0 - 1)..MaxPages
    /\ grain \in IF script = StartingFetchData THEN Grains ELSE {"day"}
    /\ Fresh
    /\ call = "none"
    /\ arg = <<>>
    /\ res = <<>>

\* ------------------------------------------------------------------------
\* main: for tag in args.tags
\* ------------------------------------------------------------------------
NextTag ==
    /\ last' = "NextTag"
    /\ leftBefore' = StepsLeft
    /\ pc = "for_tag"
    /\ ti <= Len(tags)
    /\ pc' = "while"
    /\ page' = 1
    /\ fetched' = 0
    /\ last_created' = None
    /\ reqPages' = <<>>
    /\ slept' = None
    /\ yielded' = <<>>
    /\ served' = <<>>
    /\ countsAtStart' = counts
    /\ clean' = TRUE
    /\ UNCHANGED <<main_vars, run_hist, calc_vars, ti, resp, idx, q, counts,
                   stdout, rows, owed>>

\* ------------------------------------------------------------------------
\* fetch_questions
\* ------------------------------------------------------------------------
Sleep(b) ==
    /\ owed' = IF b >= owed THEN 0 ELSE owed - b
    /\ slept' = Some(b)

\* requests.get returns a response
Request ==
    /\ last' = "Request"
    /\ leftBefore' = StepsLeft
    /\ pc = "while"
    /\ page <= max_pages
    /\ \E r \in Responses :
        /\ resp' = r
        /\ owed' = IF r.status = 200 /\ r.decodable
                   THEN Get(r.backoff, 0) ELSE 0
        /\ served' = Append(served, r.items)
        /\ clean' = (clean /\ r.status = 200 /\ r.decodable
                           /\ r.quota_remaining # Some(0))
        /\ httpError' = (httpError \/ r.status # 200)
    /\ slept' = None
    /\ reqPages' = Append(reqPages, page)
    /\ nReq' = nReq + 1
    /\ pc' = "status"
    /\ UNCHANGED <<main_vars, calc_vars, ti, page, idx, q, counts, fetched,
                   last_created, stdout, rows, yielded, countsAtStart>>

\* requests.get raises (timeout, connection error): not a RuntimeError
TransportFailure ==
    /\ last' = "TransportFailure"
    /\ leftBefore' = StepsLeft
    /\ pc = "while"
    /\ page <= max_pages
    /\ reqPages' = Append(reqPages, page)
    /\ nReq' = nReq + 1
    /\ pc' = "crashed"
    /\ UNCHANGED <<main_vars, httpError, calc_vars, ti, page, resp, idx, q,
                   counts, fetched, last_created, stdout, rows, owed,
                   yielded, served, clean, slept, countsAtStart>>

\* the while condition fails: the generator returns
PageCap ==
    /\ last' = "PageCap"
    /\ leftBefore' = StepsLeft
    /\ pc = "while"
    /\ page > max_pages
    /\ pc' = "tag_done"
    /\ UNCHANGED <<main_vars, run_hist, calc_vars, ti, page, resp, idx, q,
                   counts, fetched, last_created, stdout, rows, reqPages,
                   owed, yielded, served, clean, slept, countsAtStart>>

\* the status is not looked at
StatusTargetUnchecked(s, r) == "json"

\* starting_fetch_data.py raises on an HTTP error
StatusTargetAbort(s, r) ==
    IF r.status # 200
    THEN IF s = FetchData THEN "except" ELSE "crashed"
    ELSE "json"

StatusTarget(s, r) ==
    IF r.status # 200
    THEN IF s = FetchData THEN "except" ELSE "tag_done"
    ELSE "json"

CheckStatus ==
    /\ last' = "CheckStatus"
    /\ leftBefore' = StepsLeft
    /\ pc = "status"
    /\ pc' = StatusTarget(script, resp)
    /\ UNCHANGED <<main_vars, run_hist, calc_vars, ti, page, resp, idx, q,
                   counts, fetched, last_created, stdout, rows, reqPages,
                   owed, yielded, served, clean, slept, countsAtStart>>

\* the quota check is missing
AfterDecodeNoQuota(s) == "backoff"

\* what follows payload = r.json(): the quota check exists in fetch_data.py only
AfterDecode(s) == IF s = FetchData THEN "quota" ELSE "backoff"

\* payload = r.json(): a body that is not JSON raises a ValueError
Decode ==
    /\ last' = "Decode"
    /\ leftBefore' = StepsLeft
    /\ pc = "json"
    /\ pc' = IF ~resp.decodable THEN "crashed" ELSE AfterDecode(script)
    /\ UNCHANGED <<main_vars, run_hist, calc_vars, ti, page, resp, idx, q,
                   counts, fetched, last_created, stdout, rows, reqPages,
                   owed, yielded, served, clean, slept, countsAtStart>>

\* any reported quota is taken for an exhausted one
QuotaExhaustedIfPresent(r) ==
    r.quota_remaining # None

QuotaExhausted(r) ==
    r.quota_remaining # None /\ r.quota_remaining[1] = 0

CheckQuota ==
    /\ last' = "CheckQuota"
    /\ leftBefore' = StepsLeft
    /\ pc = "quota"
    /\ pc' = IF QuotaExhausted(resp) THEN "except" ELSE "backoff"
    /\ UNCHANGED <<main_vars, run_hist, calc_vars, ti, page, resp, idx, q,
                   counts, fetched, last_created, stdout, rows, reqPages,
                   owed, yielded, served, clean, slept, countsAtStart>>

\* the seconds slept for a response, None when time.sleep is not called
SleepFor(s, r) ==
    IF s = FetchData
    THEN IF Get(r.backoff, 0) > 0 THEN Some(Get(r.backoff, 0)) ELSE None
    ELSE IF r.backoff # None THEN Some(r.backoff[1]) ELSE None

Backoff ==
    /\ last' = "Backoff"
    /\ leftBefore' = StepsLeft
    /\ pc = "backoff"
    /\ IF SleepFor(script, resp) # None
       THEN Sleep(SleepFor(script, resp)[1])
       ELSE UNCHANGED <<owed, slept>>
    /\ idx' = 1
    /\ pc' = "items"
    /\ UNCHANGED <<main_vars, run_hist, calc_vars, ti, page, resp, q, counts,
                   fetched, last_created, stdout, rows, reqPages, yielded,
                   served, clean, countsAtStart>>

\* the last item of a page is dropped
ItemAtDropLast(items, i) ==
    IF i < Len(items) THEN Some(items[i]) ELSE None

\* the page is walked backwards
ItemAtReversed(items, i) ==
    IF i <= Len(items) THEN Some(items[Len(items) + 1 - i]) ELSE None

\* the item the for loop over items hands out at position i, None at the end
ItemAt(items, i) ==
    IF i <= Len(items) THEN Some(items[i]) ELSE None

\* for item in items: yield item
Yield ==
    /\ last' = "Yield"
    /\ leftBefore' = StepsLeft
    /\ pc = "items"
    /\ ItemAt(resp.items, idx) # None
    /\ q' = ItemAt(resp.items, idx)[1]
    /\ idx' = idx + 1
    /\ yielded' = Append(yielded, ItemAt(resp.items, idx)[1])
    /\ pc' = "body"
    /\ UNCHANGED <<main_vars, run_hist, calc_vars, ti, page, resp, counts,
                   fetched, last_created, stdout, rows, reqPages, owed,
                   served, clean, slept, countsAtStart>>

ItemsDone ==
    /\ last' = "ItemsDone"
    /\ leftBefore' = StepsLeft
    /\ pc = "items"
    /\ ItemAt(resp.items, idx) = None
    /\ pc' = "has_more"
    /\ UNCHANGED <<main_vars, run_hist, calc_vars, ti, page, resp, idx, q,
                   counts, fetched, last_created, stdout, rows, reqPages,
                   owed, yielded, served, clean, slept, countsAtStart>>

\* only an explicit has_more = false ends the sequence
HasMoreTargetExplicit(r) ==
    IF r.has_more = Some(FALSE) THEN "tag_done" ELSE "while"

HasMoreTarget(r) ==
    IF ~Get(r.has_more, FALSE) THEN "tag_done" ELSE "while"

\* a page is skipped
NextPageSkip(p) == p + 2

\* the page number is not advanced
NextPageStuck(p) == p

NextPage(p) == p + 1

HasMore ==
    /\ last' = "HasMore"
    /\ leftBefore' = StepsLeft
    /\ pc = "has_more"
    /\ pc' = HasMoreTarget(resp)
    /\ page' = IF pc' = "while" THEN NextPage(page) ELSE page
    /\ UNCHANGED <<main_vars, run_hist, calc_vars, ti, resp, idx, q, counts,
                   fetched, last_created, stdout, rows, reqPages, owed,
                   yielded, served, clean, slept, countsAtStart>>

\* ------------------------------------------------------------------------
\* main: the body of the loop over the generator
\* ------------------------------------------------------------------------
\* (day_bucket(created), tag) or (bucket_date(created, args.grain), tag)
CountKey(s, g, item, tag) ==
    IF s = FetchData THEN <<day_bucket(item[1]), tag>>
    ELSE <<bucket_date(item[1], g), tag>>

\* the handler of fetch_data.py catches every exception
KeyErrorTargetCaught(s) == IF s = FetchData THEN "except" ELSE "crashed"

\* a KeyError is not a RuntimeError: it leaves main in both scripts
KeyErrorTarget(s) == "crashed"

\* q["creation_date"] of an item without the key raises a KeyError
Body ==
    /\ last' = "Body"
    /\ leftBefore' = StepsLeft
    /\ pc = "body"
    /\ IF q = None
       THEN /\ pc' = KeyErrorTarget(script)
            /\ UNCHANGED <<counts, fetched, last_created>>
       ELSE /\ counts' =
                 Increment(counts, CountKey(script, grain, q, tags[ti]))
            /\ IF script = FetchData
               THEN /\ last_created' = Some(q[1])
                    /\ fetched' = fetched + 1
               ELSE UNCHANGED <<fetched, last_created>>
            /\ pc' = "items"
    /\ UNCHANGED <<main_vars, run_hist, calc_vars, ti, page, resp, idx, q,
                   stdout, rows, reqPages, owed, yielded, served, clean,
                   slept, countsAtStart>>

\* the handler re-raises instead of continuing
ExceptTargetAbort == "crashed"

\* except RuntimeError: print, continue
ExceptTarget == "for_tag"

Except ==
    /\ last' = "Except"
    /\ leftBefore' = StepsLeft
    /\ pc = "except"
    /\ stdout' = Append(stdout, [kind |-> "Stopped", tag |-> tags[ti],
                                 fetched |-> fetched])
    /\ ti' = ti + 1
    /\ pc' = ExceptTarget
    /\ resp' = NoResponse
    /\ UNCHANGED <<main_vars, run_hist, calc_vars, page, idx, q, counts,
                   fetched, last_created, rows, reqPages, owed, yielded,
                   served, clean, slept, countsAtStart>>

\* the generator is exhausted: print Done (fetch_data.py), next tag
TagDone ==
    /\ last' = "TagDone"
    /\ leftBefore' = StepsLeft
    /\ pc = "tag_done"
    /\ stdout' = IF script = FetchData
                 THEN Append(stdout, [kind |-> "Done", tag |-> tags[ti],
                                      fetched |-> fetched])
                 ELSE stdout
    /\ ti' = ti + 1
    /\ pc' = "for_tag"
    /\ resp' = NoResponse
    /\ UNCHANGED <<main_vars, run_hist, calc_vars, page, idx, q, counts,
                   fetched, last_created, rows, reqPages, owed, yielded,
                   served, clean, slept, countsAtStart>>

\* rows = [...]; rows.sort(...); w.writerows(rows)
WriteCsv ==
    /\ last' = "WriteCsv"
    /\ leftBefore' = StepsLeft
    /\ pc = "for_tag"
    /\ ti > Len(tags)
    /\ rows' = Some(SortedRows(counts))
    /\ pc' = "end"
    /\ UNCHANGED <<main_vars, run_hist, calc_vars, ti, page, resp, idx, q,
                   counts, fetched, last_created, stdout, reqPages, owed,
                   yielded, served, clean, slept, countsAtStart>>

Next ==
    \/ NextTag
    \/ Request
    \/ TransportFailure
    \/ PageCap
    \/ CheckStatus
    \/ Decode
    \/ CheckQuota
    \/ Backoff
    \/ Yield
    \/ ItemsDone
    \/ HasMore
    \/ Body
    \/ Except
    \/ TagDone
    \/ WriteCsv

Spec == Init /\ [][Next]_vars

\* the interpreter keeps running: every response and every sleep completes,
\* so a step that can be taken is taken
FairSpec == Spec /\ WF_vars(Next)

\* ------------------------------------------------------------------------
\* month_delta applied to a date, and applied back
\* ------------------------------------------------------------------------
MaxShift == 14

Years == {1900, 2000, 2023, 2024}

\* the dates of datetime: the day exists in its month
Dates ==
    {d \in Years \X (1..12) \X {1, 28, 29, 30, 31} :
        d[3] <= days_in_month(d[1], d[2])}

\* the arguments other than the tag loop's, for a calculation on dates
CalcArgs ==
    /\ script \in Scripts
    /\ tags = <<"python">>
    /\ max_pages = 0
    /\ grain = "day"
    /\ Fresh

MonthInit ==
    /\ CalcArgs
    /\ call = "month_delta"
    /\ arg \in [d : Dates, months : (0 - MaxShift)..MaxShift]
    /\ res = <<>>

\* month_delta(d, months)
ShiftMonths ==
    /\ call = "month_delta"
    /\ res' = <<month_delta(arg.d, arg.months)>>
    /\ call' = "shifted"
    /\ UNCHANGED <<fetch_vars, arg>>

\* month_delta(month_delta(d, months), -months)
ShiftBack ==
    /\ call = "shifted"
    /\ res' = Append(res, month_delta(res[1], 0 - arg.months))
    /\ call' = "back"
    /\ UNCHANGED <<fetch_vars, arg>>

MonthNext == ShiftMonths \/ ShiftBack

MonthSpec == MonthInit /\ [][MonthNext]_vars

\* ------------------------------------------------------------------------
\* main: the window of creation times that is requested
\* ------------------------------------------------------------------------
\* a datetime is a date and the seconds into its day
DateTimes(ds) == [d : ds, tod : {0, 50400, 86399}]

\* dt.replace(hour=0, minute=0, second=0, microsecond=0)
Midnight(t) == [t EXCEPT !.tod = 0]

\* dt + timedelta(days=1)
PlusOneDay(t) == [t EXCEPT !.d = DateOfOrdinal(OrdinalOfDate(t.d) + 1)]

\* month_delta of a datetime: d.replace keeps the time of day
ShiftedBy(t, months) == [t EXCEPT !.d = month_delta(t.d, months)]

\* the start is taken months_to back and the end months_from back
windowSwapped(s, now, months_from, months_to) ==
    IF s = FetchData
    THEN LET start_dt == Midnight(ShiftedBy(now, 0 - months_to))
             end_dt == Midnight(ShiftedBy(now, 0 - months_from))
             to_dt_exclusive == PlusOneDay(end_dt)
         IN [fromdate |-> to_unix(start_dt.d, start_dt.tod),
             todate |-> to_unix(to_dt_exclusive.d, to_dt_exclusive.tod)]
    ELSE LET start == ShiftedBy(now, 0 - 6)
             end == ShiftedBy(now, 0 - 2)
         IN [fromdate |-> to_unix(start.d, start.tod),
             todate |-> to_unix(end.d, end.tod)]

\* fromdate and todate of main
window(s, now, months_from, months_to) ==
    IF s = FetchData
    THEN LET start_dt == Midnight(ShiftedBy(now, 0 - months_from))
             end_dt == Midnight(ShiftedBy(now, 0 - months_to))
             to_dt_exclusive == PlusOneDay(end_dt)
         IN [fromdate |-> to_unix(start_dt.d, start_dt.tod),
             todate |-> to_unix(to_dt_exclusive.d, to_dt_exclusive.tod)]
    ELSE LET start == ShiftedBy(now, 0 - 6)
             end == ShiftedBy(now, 0 - 2)
         IN [fromdate |-> to_unix(start.d, start.tod),
             todate |-> to_unix(end.d, end.tod)]

\* the clock readings tried
NowDates == {d \in Dates : d[1] >= 2023}

WindowInit ==
    /\ CalcArgs
    /\ call = "window"
    /\ arg \in [now : DateTimes(NowDates),
                months_from : 0..MaxShift,
                months_to : 0..MaxShift]
    /\ res = <<>>

ComputeWindow ==
    /\ call = "window"
    /\ res' = <<window(script, arg.now, arg.months_from, arg.months_to)>>
    /\ call' = "windowed"
    /\ UNCHANGED <<fetch_vars, arg>>

WindowNext == ComputeWindow

WindowSpec == WindowInit /\ [][WindowNext]_vars

\* ------------------------------------------------------------------------
\* main: the bucket of a creation time
\* ------------------------------------------------------------------------
\* days after 1970-01-01: 2024-02-19 .. 2024-03-10, 2024-12-23 .. 2025-01-12
BucketDays == (19772..19792) \cup (20080..20100)

BucketTimes == {day * 86400 + tod : day \in BucketDays, tod \in {0, 86399}}

\* the date key that main gives a creation time
KeyOf(s, g, ts) == IF s = FetchData THEN day_bucket(ts) ELSE bucket_date(ts, g)

BucketInit ==
    /\ CalcArgs
    /\ call = "bucket"
    /\ arg \in [ts1 : BucketTimes, ts2 : BucketTimes,
                grain : IF script = FetchData THEN {"day"} ELSE Grains]
    /\ res = <<>>

BucketBoth ==
    /\ call = "bucket"
    /\ res' = <<KeyOf(script, arg.grain, arg.ts1),
                KeyOf(script, arg.grain, arg.ts2)>>
    /\ call' = "bucketed"
    /\ UNCHANGED <<fetch_vars, arg>>

BucketNext == BucketBoth

BucketSpec == BucketInit /\ [][BucketNext]_vars

TypeOK ==
    /\ script \in Scripts
    /\ tags \in TagLists
    /\ pc \in {"for_tag", "while", "status", "json", "quota", "backoff",
               "items", "body", "has_more", "except", "tag_done", "end",
               "crashed"}
    /\ resp \in Responses \cup {NoResponse}
    /\ ti \in 1..(Len(tags) + 1)

\* ------------------------------------------------------------------------
\* Auxiliary operators of the properties
\* ------------------------------------------------------------------------
RECURSIVE Flatten(_)
Flatten(ss) ==
    IF ss = <<>> THEN <<>> ELSE Head(ss) \o Flatten(Tail(ss))

Front(s) == SubSeq(s, 1, Len(s) - 1)

IsPrefix(a, b) ==
    Len(a) <= Len(b) /\ a = SubSeq(b, 1, Len(a))

NoDuplicates(s) ==
    \A i, j \in 1..Len(s) : s[i] = s[j] => i = j

RECURSIVE SumSeq(_)
SumSeq(s) == IF s = <<>> THEN 0 ELSE Head(s) + SumSeq(Tail(s))

\* total questions_count of the written rows of a tag
RowSum(rs, tag) ==
    SumSeq([i \in 1..Len(rs) |->
              IF rs[i].tag = tag THEN rs[i].questions_count ELSE 0])

\* total of the fetched numbers printed for a tag
PrintedFetched(tag) ==
    SumSeq([i \in 1..Len(stdout) |->
              IF stdout[i].tag = tag THEN stdout[i].fetched ELSE 0])

\* index of the tag the history variables of the generator belong to: the
\* tag of the loop, or the one just left when the loop is at its head
HistTag == IF pc \in {"for_tag", "end"} THEN ti - 1 ELSE ti

\* what that tag has added to the table
Added(tag) == SumOfTag(counts, tag) - SumOfTag(countsAtStart, tag)

\* the items main has counted: all the yielded ones, but the one that is in
\* its hands or that it has failed on
Counted ==
    IF pc = "body" \/ (pc = "crashed" /\ last = "Body")
    THEN Front(yielded) ELSE yielded

\* ------------------------------------------------------------------------
\* C1: in fetch_data.py a fatal error of fetch_questions (non-200 status or
\* exhausted quota) does not abort the run: the handler keeps the counts of
\* the items already yielded for the tag, prints the Stopped line and goes
\* on with the next tag; only a failed request, an undecodable body or a
\* malformed item end the run early; at the end the table is written, every
\* tag has its line, and the rows of each tag add up to the items fetched
\* for it.
\* ------------------------------------------------------------------------
C1_PartialFailureTolerated ==
    script = FetchData =>
        /\ pc = "except" =>
              /\ Added(tags[ti]) = Len(yielded)
              /\ fetched = Len(yielded)
        /\ last = "Except" =>
              /\ pc = "for_tag"
              /\ Added(tags[ti - 1]) = Len(yielded)
              /\ stdout[ti - 1] = [kind |-> "Stopped", tag |-> tags[ti - 1],
                                   fetched |-> Len(yielded)]
        /\ pc = "crashed" => last \in {"TransportFailure", "Decode", "Body"}
        /\ (pc = "for_tag" /\ ti <= Len(tags)) => ENABLED NextTag
        /\ pc = "end" =>
              /\ rows # None
              /\ Len(stdout) = Len(tags)
              /\ \A i \in 1..Len(tags) : stdout[i].tag = tags[i]
              /\ \A t \in TagSet : RowSum(rows[1], t) = PrintedFetched(t)

C1_Witness ==
    /\ script = FetchData
    /\ pc = "end"
    /\ tags = <<"python", "java">>
    /\ stdout[1].kind = "Stopped" /\ stdout[1].fetched > 0
    /\ stdout[2].kind = "Done" /\ stdout[2].fetched > 0
    /\ RowSum(rows[1], "python") = stdout[1].fetched
    /\ RowSum(rows[1], "java") = stdout[2].fetched

\* ------------------------------------------------------------------------
\* C2: in fetch_data.py a response whose status is not 200 ends the
\* sequence of the tag at once as an error: the generator is either at the
\* status check or in the handler of main, nothing of that response was
\* yielded, time.sleep was not called and the page of that response is the
\* last one requested for the tag.
\* ------------------------------------------------------------------------
C2_Non200IsFatal ==
    (script = FetchData /\ resp # NoResponse /\ resp.status # 200) =>
        /\ pc \in {"status", "except"}
        /\ slept = None
        /\ yielded = Flatten(Front(served))
        /\ reqPages # <<>> /\ reqPages[Len(reqPages)] = page

C2_Witness ==
    /\ script = FetchData
    /\ pc = "except"
    /\ resp.status = 500
    /\ resp.items # <<>>
    /\ resp.backoff = Some(2)
    /\ resp.has_more = Some(TRUE)
    /\ page = 1 /\ max_pages = 2
    /\ yielded = <<>>

\* ------------------------------------------------------------------------
\* C3: in fetch_data.py a status 200 response with quota_remaining = 0
\* ends the sequence at once as an error, before any item of that page is
\* yielded, whatever its items and has_more are; the items of the earlier
\* pages have all been yielded and no later page is requested.  A quota
\* that is absent or not 0 is no error.
\* ------------------------------------------------------------------------
C3_QuotaExhaustedIsFatal ==
    script = FetchData =>
        /\ (resp.status = 200 /\ resp.quota_remaining = Some(0)) =>
              /\ pc \in {"status", "json", "quota", "except"}
              /\ slept = None
              /\ yielded = Flatten(Front(served))
              /\ reqPages # <<>> /\ reqPages[Len(reqPages)] = page
        /\ (pc = "except" /\ resp.status = 200) =>
              resp.quota_remaining = Some(0)

C3_Witness ==
    /\ script = FetchData
    /\ pc = "except"
    /\ resp.status = 200
    /\ resp.quota_remaining = Some(0)
    /\ resp.items # <<>>
    /\ resp.has_more = Some(TRUE)
    /\ page = 2
    /\ yielded # <<>>

\* ------------------------------------------------------------------------
\* C4: whenever a response carries a backoff b > 0, the fetcher sleeps at
\* least b seconds before it goes on: no item is yielded and no request is
\* issued while seconds of the last response's backoff are still owed.
\* ------------------------------------------------------------------------
IssuesRequest == pc = "while" /\ pc' \in {"status", "crashed"}
YieldsItem == pc = "items" /\ pc' = "body"

C4_BackoffHonoured == [][(IssuesRequest \/ YieldsItem) => owed = 0]_vars

\* ------------------------------------------------------------------------
\* C5: the pages requested for a tag are 1, 2, 3, ... without gap or
\* repetition and at most max_pages of them (none when max_pages <= 0);
\* when the page counter has passed max_pages the generator returns
\* normally and the tag is printed as Done, not as Stopped.
\* ------------------------------------------------------------------------
C5_PagesConsecutiveAndCapped ==
    /\ reqPages = [i \in 1..Len(reqPages) |-> i]
    /\ Len(reqPages) <= (IF max_pages > 0 THEN max_pages ELSE 0)
    /\ pc = "while" => page = Len(reqPages) + 1
    /\ max_pages <= 0 => served = <<>> /\ yielded = <<>>
    /\ last = "PageCap" =>
          /\ pc = "tag_done"
          /\ Len(reqPages) = (IF max_pages > 0 THEN max_pages ELSE 0)
    /\ (HistTag >= 1 /\ page > max_pages) => pc \in {"while", "tag_done", "for_tag", "end"}
    /\ (script = FetchData /\ pc \in {"for_tag", "end"} /\ HistTag >= 1
          /\ page > max_pages) =>
          stdout[HistTag] = [kind |-> "Done", tag |-> tags[HistTag],
                             fetched |-> Len(yielded)]

C5_Witness ==
    /\ script = FetchData
    /\ pc = "for_tag"
    /\ max_pages = 2
    /\ page = 3
    /\ reqPages = <<1, 2>>
    /\ Len(served) = 2
    /\ stdout # <<>> /\ stdout[Len(stdout)].kind = "Done"
    /\ stdout[Len(stdout)].fetched = Len(Flatten(served))
    /\ Len(Flatten(served)) = 4

\* ------------------------------------------------------------------------
\* C6: when a status 200 page has has_more false or absent, all its items
\* have been yielded when has_more is looked at, and the generator then
\* returns: the tag ends normally and no further page is requested,
\* whatever page and max_pages are; a further page is requested only after
\* a page with has_more true.
\* ------------------------------------------------------------------------
C6_NoMorePagesEndsTag ==
    /\ pc = "has_more" =>
          /\ resp.status = 200
          /\ idx = Len(resp.items) + 1
          /\ yielded = Flatten(served)
    /\ last = "HasMore" =>
          /\ resp.has_more \in {None, Some(FALSE)} =>
                /\ pc = "tag_done"
                /\ page = Len(reqPages)
                /\ yielded = Flatten(served)
          /\ resp.has_more = Some(TRUE) =>
                pc = "while" /\ page = Len(reqPages) + 1
    /\ (pc = "while" /\ reqPages # <<>>) =>
          resp.status = 200 /\ resp.has_more = Some(TRUE)
    /\ last = "TagDone" => pc = "for_tag"

C6_Witness ==
    /\ pc = "tag_done"
    /\ last = "HasMore"
    /\ resp.status = 200
    /\ resp.has_more = None
    /\ Len(resp.items) = 1
    /\ page = 1 /\ max_pages = 2
    /\ reqPages = <<1>>
    /\ yielded = resp.items

\* ------------------------------------------------------------------------
\* C7: the count table is at any time the table of the start of the tag
\* with 1 added, for every item counted since, to the entry of the item's
\* date and the tag, and to no other entry; so when a tag has been
\* processed (generator exhausted, page cap or fatal error) the entries of
\* that tag add up to the number of items yielded for it, for a tag list
\* without duplicates.
\* ------------------------------------------------------------------------
\* the bucket of a creation time in this run
BucketOf(t) ==
    IF script = StartingFetchData /\ grain = "week"
    THEN bucket_date(t, "week") ELSE day_bucket(t)

\* the buckets of the creation times
Buckets == [t \in CreationDates |-> BucketOf(t)]

\* the items counted since the start of the tag whose bucket is date
CountedOn(b, date) ==
    Cardinality({i \in 1..Len(Counted) : b[Counted[i][1]] = date})

ExpectedCount(b, k) ==
    (IF k \in DOMAIN countsAtStart THEN countsAtStart[k] ELSE 0)
    + (IF HistTag >= 1 /\ HistTag <= Len(tags) /\ k[2] = tags[HistTag]
       THEN CountedOn(b, k[1]) ELSE 0)

C7_CountsMatchYielded ==
    /\ LET b == Buckets
           keys == {<<b[t], tag>> : t \in CreationDates, tag \in TagSet}
       IN /\ DOMAIN counts \subseteq keys
          /\ \A k \in keys :
                IF k \in DOMAIN counts
                THEN counts[k] = ExpectedCount(b, k)
                ELSE ExpectedCount(b, k) = 0
    /\ (pc \in {"tag_done", "except"} /\ NoDuplicates(tags)) =>
          SumOfTag(counts, tags[ti]) = Len(yielded)

C7_Witness ==
    /\ pc = "tag_done"
    /\ NoDuplicates(tags)
    /\ ti = 2
    /\ Len(yielded) = 3
    /\ SumOfTag(counts, tags[ti]) = 3
    /\ \E k \in KeysOfTag(counts, tags[ti]) : counts[k] = 2

\* ------------------------------------------------------------------------
\* C8: when every response of a tag was a status 200 page without an
\* exhausted quota and the last one has has_more false, the tag has added
\* to the table exactly the number of items of all the pages served (and
\* fetched is that number in fetch_data.py).
\* ------------------------------------------------------------------------
C8_AllPagesCounted ==
    (pc = "tag_done" /\ clean /\ served # <<>>
        /\ resp.has_more \in {None, Some(FALSE)}) =>
        /\ Added(tags[ti]) = Len(Flatten(served))
        /\ NoDuplicates(tags) =>
              SumOfTag(counts, tags[ti]) = Len(Flatten(served))
        /\ script = FetchData => fetched = Len(Flatten(served))

C8_Witness ==
    /\ pc = "tag_done"
    /\ clean
    /\ Len(served) = 2
    /\ Len(served[1]) = 2 /\ Len(served[2]) = 1
    /\ resp.has_more = Some(FALSE)
    /\ Added(tags[ti]) = 3

\* ------------------------------------------------------------------------
\* C9: in fetch_data.py quota_remaining = 0 on page 1 stops the tag with
\* nothing fetched: the count table is what it was when the tag started
\* (no key of the tag is added, the counts of the earlier tags are kept),
\* also after the handler has run, and a tag for which nothing was fetched
\* has no row in the output.
\* ------------------------------------------------------------------------
FirstOccurrence(i) == \A j \in 1..(i - 1) : tags[j] # tags[i]

C9_QuotaOnFirstPage ==
    script = FetchData =>
        /\ (resp.status = 200 /\ resp.quota_remaining = Some(0) /\ page = 1) =>
              /\ pc \in {"status", "json", "quota", "except"}
              /\ yielded = <<>>
              /\ fetched = 0
              /\ counts = countsAtStart
              /\ FirstOccurrence(ti) => KeysOfTag(counts, tags[ti]) = {}
        /\ (last = "Except" /\ page = 1) =>
              /\ counts = countsAtStart
              /\ stdout[ti - 1].fetched = 0
              /\ FirstOccurrence(ti - 1) => KeysOfTag(counts, tags[ti - 1]) = {}
        /\ pc = "end" =>
              \A t \in TagSet :
                 PrintedFetched(t) = 0 =>
                    \A i \in 1..Len(rows[1]) : rows[1][i].tag # t

C9_Witness ==
    /\ script = FetchData
    /\ pc = "except"
    /\ ti = 2 /\ tags[1] # tags[2]
    /\ page = 1
    /\ resp.status = 200 /\ resp.quota_remaining = Some(0)
    /\ resp.items # <<>>
    /\ counts # EmptyTable
    /\ counts = countsAtStart
    /\ KeysOfTag(counts, tags[2]) = {}

\* ------------------------------------------------------------------------
\* C10: the items of a tag reach the loop of main in the order the server
\* returned them, page after page and in each page's own order; so when
\* the pages served are ascending in creation_date, the items yielded are
\* too and last_created is the largest creation_date counted.
\* ------------------------------------------------------------------------
WellFormed(its) == \A i \in 1..Len(its) : its[i] # None

NonDecreasing(its) ==
    \A i, j \in 1..Len(its) : i < j => its[i][1] <= its[j][1]

MaxCreated(its) ==
    CHOOSE m \in {its[i][1] : i \in 1..Len(its)} :
        \A i \in 1..Len(its) : its[i][1] <= m

C10_OrderPreserved ==
    /\ IsPrefix(yielded, Flatten(served))
    /\ pc = "has_more" => yielded = Flatten(served)
    /\ pc = "body" => yielded # <<>> /\ q = yielded[Len(yielded)]
    /\ (script = FetchData /\ WellFormed(Flatten(served))
          /\ NonDecreasing(Flatten(served))) =>
          /\ NonDecreasing(yielded)
          /\ last_created =
                IF Counted = <<>> THEN None ELSE Some(MaxCreated(Counted))

C10_Witness ==
    /\ script = FetchData
    /\ pc = "tag_done"
    /\ Len(served) = 2
    /\ Len(yielded) = 3
    /\ yielded = Flatten(served)
    /\ NonDecreasing(yielded)
    /\ yielded[1] # yielded[3]
    /\ last_created = Some(yielded[3][1])

\* ------------------------------------------------------------------------
\* C11: the written rows are in ascending order of (date, tag), the date
\* strings compared character by character and then the tag strings, so an
\* earlier creation day comes first and within a day "java" comes before
\* "python"; there is exactly one row for each key of the count table and
\* it carries the count of that key.
\* ------------------------------------------------------------------------
RowKey(r) == <<r.date, r.tag>>

C11_RowsSortedOnePerKey ==
    pc = "end" =>
        LET rs == rows[1]
        IN /\ \A i \in 1..Len(rs), j \in 1..Len(rs) :
                  i < j =>
                      \/ StrLess(rs[i].date, rs[j].date)
                      \/ /\ rs[i].date = rs[j].date
                         /\ StrLess(TagChars(rs[i].tag), TagChars(rs[j].tag))
           /\ \A i \in 1..Len(rs), j \in 1..Len(rs) :
                  \A t1 \in CreationDates, t2 \in CreationDates :
                      /\ t1 < t2
                      /\ BucketOf(t1) # BucketOf(t2)
                      /\ rs[i].date = BucketOf(t1)
                      /\ rs[j].date = BucketOf(t2)
                      => i < j
           /\ \A i \in 1..Len(rs), j \in 1..Len(rs) :
                  /\ rs[i].date = rs[j].date
                  /\ rs[i].tag = "java"
                  /\ rs[j].tag = "python"
                  => i < j
           /\ {RowKey(rs[i]) : i \in 1..Len(rs)} = DOMAIN counts
           /\ Len(rs) = Cardinality(DOMAIN counts)
           /\ \A i \in 1..Len(rs) :
                  rs[i].questions_count = counts[RowKey(rs[i])]

C11_Witness ==
    /\ pc = "end"
    /\ tags = <<"python", "java">>
    /\ Len(rows[1]) = 4
    /\ rows[1][1].tag = "java"
    /\ rows[1][2].questions_count = 2
    /\ rows[1][1].date # rows[1][3].date

\* ------------------------------------------------------------------------
\* Auxiliary operators of the properties on dates
\* ------------------------------------------------------------------------
\* the Gregorian rule: 29 days in February exactly in the years divisible
\* by 4 and not by 100, or divisible by 400
LengthOfMonth(y, m) ==
    CASE m \in {4, 6, 9, 11} -> 30
      [] m = 2 -> IF (y % 4 = 0 /\ y % 100 # 0) \/ y % 400 = 0 THEN 29
                  ELSE 28
      [] OTHER -> 31

ValidDate(d) ==
    /\ d[1] \in 1..9999
    /\ d[2] \in 1..12
    /\ d[3] \in 1..LengthOfMonth(d[1], d[2])

MonthIndex(d) == 12 * d[1] + d[2]

\* ------------------------------------------------------------------------
\* C13: month_delta returns a valid calendar date whose month index
\* 12 * year + month is that of d plus the delta and whose day is the
\* smaller of d.day and the length of the resulting month, February having
\* 29 days exactly in the years divisible by 4 and not by 100, or divisible
\* by 400.
\* ------------------------------------------------------------------------
C13_MonthDeltaShiftsAndClamps ==
    call \in {"shifted", "back"} =>
        /\ ValidDate(res[1])
        /\ MonthIndex(res[1]) = MonthIndex(arg.d) + arg.months
        /\ res[1][3] = Min(arg.d[3], LengthOfMonth(res[1][1], res[1][2]))

C13_Witness ==
    /\ call = "shifted"
    /\ arg.d = <<2000, 3, 31>>
    /\ arg.months = 0 - 13
    /\ res[1] = <<1999, 2, 28>>

\* ------------------------------------------------------------------------
\* C14: month_delta(month_delta(d, N), -N) has the year and the month of d,
\* and its day is at most d.day, and equal to d.day when d.day <= 28.
\* ------------------------------------------------------------------------
C14_RoundTripWithinClamping ==
    call = "back" =>
        /\ res[2][1] = arg.d[1]
        /\ res[2][2] = arg.d[2]
        /\ res[2][3] <= arg.d[3]
        /\ arg.d[3] <= 28 => res[2][3] = arg.d[3]

C14_Witness ==
    /\ call = "back"
    /\ arg.d = <<2024, 1, 31>>
    /\ arg.months = 1
    /\ res = <<(<<2024, 2, 29>>), (<<2024, 1, 29>>)>>

\* ------------------------------------------------------------------------
\* C12: in fetch_data.py, for months_from > months_to >= 0, the requested
\* window has fromdate < todate: fromdate is midnight of the day that
\* month_delta(now, -months_from) gives, todate is midnight of the day after
\* the one that month_delta(now, -months_to) gives, also when the day of the
\* month is clamped.
\* ------------------------------------------------------------------------
C12_WindowStartBeforeEnd ==
    (/\ call = "windowed"
     /\ script = FetchData
     /\ arg.months_from > arg.months_to
     /\ arg.months_to >= 0)
    => /\ res[1].fromdate < res[1].todate
       /\ res[1].fromdate % 86400 = 0
       /\ res[1].todate % 86400 = 0
       /\ MonthIndex(DateOfTimestamp(res[1].fromdate))
            = MonthIndex(arg.now.d) - arg.months_from
       /\ MonthIndex(DateOfTimestamp(res[1].todate - 86400))
            = MonthIndex(arg.now.d) - arg.months_to

C12_Witness ==
    /\ call = "windowed"
    /\ script = FetchData
    /\ arg.now = [d |-> <<2024, 3, 31>>, tod |-> 50400]
    /\ arg.months_from = 1
    /\ arg.months_to = 0
    /\ res[1] = [fromdate |-> 1709164800, todate |-> 1711929600]

\* ------------------------------------------------------------------------
\* C15: with grain = week, bucket_date gives the date of a Monday that is at
\* most 6 days before the UTC date of the timestamp, and two timestamps
\* whose dates lie in the same Monday-to-Sunday span get the same key, also
\* across the end of a month or of a year; with grain = day, two timestamps
\* on the same UTC date get the same key whatever the time of day.
\* ------------------------------------------------------------------------
\* the date that a key YYYY-MM-DD spells
ParseIso(k) ==
    <<(k[1] - 48) * 1000 + (k[2] - 48) * 100 + (k[3] - 48) * 10 + (k[4] - 48),
      (k[6] - 48) * 10 + (k[7] - 48),
      (k[9] - 48) * 10 + (k[10] - 48)>>

\* the day of the week from the calendar date, Sunday is 0
DayOfWeek(d) ==
    LET t == <<0, 3, 2, 5, 0, 3, 5, 1, 4, 6, 2, 4>>
        y == IF d[2] < 3 THEN d[1] - 1 ELSE d[1]
    IN (y + y \div 4 - y \div 100 + y \div 400 + t[d[2]] + d[3]) % 7

\* the UTC day number of a timestamp
DayNumber(ts) == ts \div 86400

C15_BucketKeys ==
    call = "bucketed" =>
        /\ arg.grain = "week" =>
              LET monday == ParseIso(res[1])
                  back == DayNumber(arg.ts1) - OrdinalOfDate(monday)
              IN /\ Len(res[1]) = 10
                 /\ ValidDate(monday)
                 /\ DayOfWeek(monday) = 1
                 /\ back \in 0..6
                 /\ \A span \in 0..6 :
                       /\ DayNumber(arg.ts2) - DayNumber(arg.ts1) = span - back
                       => res[2] = res[1]
                 /\ DayNumber(arg.ts2) - DayNumber(arg.ts1) \notin
                        ((0 - back)..(6 - back))
                    => res[2] # res[1]
        /\ arg.grain = "day" =>
              /\ DayNumber(arg.ts1) = DayNumber(arg.ts2) => res[1] = res[2]
              /\ DayNumber(arg.ts1) # DayNumber(arg.ts2) => res[1] # res[2]
              /\ OrdinalOfDate(ParseIso(res[1])) = DayNumber(arg.ts1)

C15_Witness ==
    /\ call = "bucketed"
    /\ script = StartingFetchData
    /\ arg.grain = "week"
    /\ arg.ts1 = 1735516800
    /\ arg.ts2 = 1736121599
    /\ res[1] = isoformat(<<2024, 12, 30>>)
    /\ res[2] = res[1]
    /\ DateOfTimestamp(arg.ts2) = <<2025, 1, 5>>

\* ------------------------------------------------------------------------
\* C16: in fetch_data.py every network or API failure met while a tag is
\* fetched (a status other than 200, quota_remaining = 0, an exception of
\* requests.get, a body that is not JSON) is caught by the handler of main:
\* the run goes on with the remaining tags and writes the table, so the only
\* error that ends a run is the one raised in the body of the loop.
\* ------------------------------------------------------------------------
C16_NetworkFailuresCaught ==
    (script = FetchData /\ pc = "crashed") => last = "Body"

\* ------------------------------------------------------------------------
\* C17 as stated: when the run has ended, at most len(tags) * max_pages
\* requests were issued in the whole run.
\* ------------------------------------------------------------------------
C17_RequestsWithinProduct == Terminated => nReq <= Len(tags) * max_pages

\* ------------------------------------------------------------------------
\* C17: whatever the server answers, the run terminates: at most
\* len(tags) * max(max_pages, 0) requests are issued in the whole run, the
\* items yielded for a tag are at most those of max_pages pages, every step
\* brings the run closer to its end (StepsLeft is a bound on the steps still
\* to come, every step lowers it and it is 0 exactly when the run has
\* ended), and the run ends with the table written or with an unhandled
\* error, after which nothing more happens.
\* ------------------------------------------------------------------------
C17_RunTerminates ==
    /\ nReq <= Len(tags) * PageAllowance
    /\ Len(yielded) <= PageAllowance * MaxItems
    /\ pc = "end" <=> rows # None
    /\ StepsLeft >= 0
    /\ last # "Init" => StepsLeft < leftBefore
    /\ Terminated <=> StepsLeft = 0
    /\ last # "Init" => leftBefore > 0

C17_Witness ==
    /\ pc = "end"
    /\ Len(tags) = 2
    /\ max_pages = 2
    /\ nReq = 4
    /\ Len(rows[1]) > 0

\* ------------------------------------------------------------------------
\* C18: every entry of the count table only grows: a step leaves an entry as
\* it is or adds exactly 1 to it, no entry is lowered or removed, a new
\* entry starts at 1, every key in the table has a count of at least 1, no
\* written row has count 0, and a tag that yielded no item has no entry and
\* no row.
\* ------------------------------------------------------------------------
TagsOf(rs) == {rs[i].tag : i \in 1..Len(rs)}

C18_CountsOnlyGrow ==
    /\ [](\A k \in DOMAIN counts : counts[k] >= 1)
    /\ [](rows # None =>
            /\ \A i \in 1..Len(rows[1]) : rows[1][i].questions_count >= 1
            /\ TagsOf(rows[1]) = {k[2] : k \in DOMAIN counts})
    /\ [](\A t \in TagSet :
            (\A i \in 1..Len(tags) : tags[i] = t => i > HistTag)
            => KeysOfTag(counts, t) = {})
    /\ [](/\ HistTag \in 1..Len(tags)
          /\ FirstOccurrence(HistTag)
          /\ Counted = <<>>
          => KeysOfTag(counts, tags[HistTag]) = {})
    /\ [][/\ DOMAIN counts \subseteq DOMAIN counts'
          /\ \A k \in DOMAIN counts : counts'[k] \in {counts[k], counts[k] + 1}
          /\ \A k \in DOMAIN counts' \ DOMAIN counts : counts'[k] = 1
          /\ Cardinality({k \in DOMAIN counts' :
                            k \notin DOMAIN counts \/ counts'[k] # counts[k]})
               <= 1]_vars

C18_Witness ==
    /\ last = "Body"
    /\ pc = "items"
    /\ tags = <<"python", "java">>
    /\ ti = 2
    /\ KeysOfTag(counts, "python") = {}
    /\ \E k \in DOMAIN counts : counts[k] = 2

\* ------------------------------------------------------------------------
\* C19: in both scripts an item without creation_date ends the whole run
\* with an unhandled error: the handler of the tag does not run, no line is
\* printed for the tag, no later tag is fetched and no table is written,
\* although the items counted before are in the count table.
\* ------------------------------------------------------------------------
C19_MissingCreationDateAborts ==
    /\ (last = "Body" /\ q = None) =>
          /\ pc = "crashed"
          /\ rows = None
          /\ yielded # <<>> /\ Len(Counted) = Len(yielded) - 1
          /\ script = FetchData => Len(stdout) = ti - 1
    /\ pc = "crashed" =>
          /\ rows = None
          /\ last \in {"Body", "TransportFailure", "Decode"}
          /\ ti <= Len(tags)

C19_Witness ==
    /\ script = StartingFetchData
    /\ pc = "crashed"
    /\ last = "Body"
    /\ q = None
    /\ tags = <<"python", "java">>
    /\ ti = 1
    /\ counts # EmptyTable
    /\ rows = None

\* ------------------------------------------------------------------------
\* C20 as stated: in starting_fetch_data.py a response with a status other
\* than 200 aborts the run: once the status was checked the run has ended
\* with an error and no table is written.
\* ------------------------------------------------------------------------
C20_StartingAbortsOnHttpError ==
    (script = StartingFetchData /\ httpError /\ pc # "status")
    => (pc = "crashed" /\ rows = None)

\* ------------------------------------------------------------------------
\* C20: a response with a status other than 200 ends the run in neither
\* script. In starting_fetch_data.py the generator returns: the sequence of
\* the tag ends without an error and without a summary line; in
\* fetch_data.py it raises, and the handler of main prints the Stopped line
\* of the tag. In both the items of that response are not yielded, the
\* counts are kept, the next tag is fetched and the table is written.
\* ------------------------------------------------------------------------
C20_HttpErrorEndsTagOnly ==
    /\ (last = "CheckStatus" /\ resp.status # 200) =>
          /\ pc = (IF script = FetchData THEN "except" ELSE "tag_done")
          /\ yielded = Flatten(Front(served))
          /\ rows = None
    /\ (httpError /\ pc = "crashed") =>
          last \in {"Body", "TransportFailure", "Decode"}
    /\ (httpError /\ pc = "end") =>
          /\ rows # None
          /\ \A t \in TagSet : RowSum(rows[1], t) = SumOfTag(counts, t)
          /\ script = FetchData =>
                \E i \in 1..Len(stdout) : stdout[i].kind = "Stopped"
    /\ script = StartingFetchData => (stdout = <<>> /\ pc # "except")

C20_Witness ==
    /\ script = StartingFetchData
    /\ httpError
    /\ pc = "end"
    /\ tags = <<"python", "java">>
    /\ nReq = 2
    /\ KeysOfTag(counts, "python") = {}
    /\ RowSum(rows[1], "java") = 2


====
